---- MODULE Spec2Model ----
\* Inventory server (express app): the items and transactions files, the
\* request handlers of src/unnamed/part_000 (the later revision of src/app.js),
\* each handler cut at its awaits, and any number of handlers in flight.
EXTENDS Integers, Sequences, FiniteSets, TLC

\* ------------------------------------------------------------------ bounds
\* Requests handled in one run (each is one handler invocation).
NumReq == 2
\* Largest stock amount a create or update request asks for.
MaxAmount == 2
\* Readings of Date.now() beyond the first one.
MaxTicks == 1
\* Longest ledger transactions.json starts with.
MaxLedger == 3

Procs == 1..NumReq
Names == {"a", "b"}
\* A property the JSON body does not carry.
Undefined == "undefined"

\* ------------------------------------------------------- JSON body values
\* The amount of a take-item body as the handler receives it: absent, a JSON
\* number (integers only here) or a JSON string (a sequence of characters).
Undef == [t |-> "undefined", n |-> 0, s |-> <<>>]
Num(n) == [t |-> "number", n |-> n, s |-> <<>>]
Str(s) == [t |-> "string", n |-> 0, s |-> s]

\* !v for an amount: undefined, 0 and "" are falsy.
Falsy(v) ==
    \/ v.t = "undefined"
    \/ v.t = "number" /\ v.n = 0
    \/ v.t = "string" /\ v.s = <<>>

\* !s for a string property: undefined and "" are falsy.
StrFalsy(s) == s = Undefined \/ s = ""

Digits == <<"0", "1", "2", "3", "4", "5", "6", "7", "8", "9">>
IsDigit(c) == \E d \in 1..10 : Digits[d] = c
DigitVal(c) == (CHOOSE d \in 1..10 : Digits[d] = c) - 1

RECURSIVE SkipSpace(_)
SkipSpace(s) ==
    IF s # <<>> /\ Head(s) = " " THEN SkipSpace(Tail(s)) ELSE s

RECURSIVE ParseDigits(_, _, _)
ParseDigits(s, acc, any) ==
    IF s # <<>> /\ IsDigit(Head(s))
    THEN ParseDigits(Tail(s), acc * 10 + DigitVal(Head(s)), TRUE)
    ELSE [nan |-> ~any, v |-> acc]

\* parseInt(v, 10): leading blanks skipped, an optional sign, then the longest
\* run of digits; NaN when there is none. A number is parsed from its decimal
\* form, which for an integer gives the integer back.
ParseInt(v) ==
    CASE v.t = "number" -> [nan |-> FALSE, v |-> v.n]
      [] v.t = "string" ->
            LET t == SkipSpace(v.s)
                signed == t # <<>> /\ Head(t) \in {"-", "+"}
                r == ParseDigits(IF signed THEN Tail(t) ELSE t, 0, FALSE)
            IN  [nan |-> r.nan,
                 v |-> IF signed /\ Head(t) = "-" THEN 0 - r.v ELSE r.v]
      [] OTHER -> [nan |-> TRUE, v |-> 0]

\* ------------------------------------------------------------------ state
VARIABLES
    itemsFile,    \* the array last written in full to items.json
    itemsTorn,    \* items.json is truncated now: a write opened it and has
                  \* not written yet, so a reader finds no JSON, not itemsFile
    transFile,    \* the array last written in full to transactions.json
    transTorn,    \* transactions.json is truncated now
    clock,        \* Date.now()
    pc,           \* per request: the await its handler is suspended at
    req,          \* per request: route, route parameter and body
    local,        \* per request: the handler's local variables
    resp,         \* per request: the response sent
    items0,       \* items.json when the server started
    trans0        \* transactions.json when the server started

vars == <<itemsFile, itemsTorn, transFile, transTorn, clock, pc, req, local,
          resp, items0, trans0>>

NoReq == [kind |-> "none"]
NoResp == [status |-> 0]
NoLocal == [items |-> <<>>, index |-> 0, requestedAmount |-> 0,
            transactions |-> <<>>]

Item(id, name, amount) == [id |-> id, name |-> name, amount |-> amount]

\* ---------------------------------------------------------------- helpers
\* Faulty variant of FindIndex: the last match instead of the first.
FindLastIndex(items, name) ==
    IF \E i \in 1..Len(items) : items[i].name = name
    THEN CHOOSE i \in 1..Len(items) :
            /\ items[i].name = name
            /\ \A j \in (i + 1)..Len(items) : items[j].name # name
    ELSE 0

\* items.findIndex(item => item.name === name), 1-based; 0 stands for -1.
FindIndex(items, name) ==
    IF \E i \in 1..Len(items) : items[i].name = name
    THEN CHOOSE i \in 1..Len(items) :
            /\ items[i].name = name
            /\ \A j \in 1..(i - 1) : items[j].name # name
    ELSE 0

\* Variant of Merge with the spread order swapped: { ...body, ...record }.
MergeUnder(record, body) ==
    [f \in DOMAIN record \cup DOMAIN body |->
        IF f \in DOMAIN record THEN record[f] ELSE body[f]]

\* { ...record, ...body }: the body's properties over the record's.
Merge(record, body) ==
    [f \in DOMAIN record \cup DOMAIN body |->
        IF f \in DOMAIN body THEN body[f] ELSE record[f]]

\* Variant of FilterOut that drops the first matching item only.
RECURSIVE FilterOutFirst(_, _)
FilterOutFirst(items, name) ==
    IF items = <<>> THEN <<>>
    ELSE IF Head(items).name # name
         THEN <<Head(items)>> \o FilterOutFirst(Tail(items), name)
         ELSE Tail(items)

\* items.filter(item => item.name !== name)
RECURSIVE FilterOut(_, _)
FilterOut(items, name) ==
    IF items = <<>> THEN <<>>
    ELSE IF Head(items).name # name
         THEN <<Head(items)>> \o FilterOut(Tail(items), name)
         ELSE FilterOut(Tail(items), name)

Error(status, text) == [status |-> status, error |-> text]

\* The catch block of each handler: what it answers when a file operation or
\* JSON.parse throws.
ServerError(kind) ==
    CASE kind = "getItems" -> Error(500, "Error reading items")
      [] kind = "createItem" -> Error(500, "Error creating item")
      [] kind = "updateItem" -> Error(500, "Error updating item")
      [] kind = "deleteItem" -> Error(500, "Error deleting item")
      [] kind = "takeItem" -> Error(500, "Error processing transaction")
      [] kind = "getTransactions" -> Error(500, "Error reading transactions")
      [] kind = "updateTransaction" ->
            Error(500, "Error updating transaction")
      [] kind = "deleteTransaction" ->
            Error(500, "Error deleting transaction")
      [] OTHER -> Error(500, "Error")

\* ------------------------------------------------------------- take-item
\* if (!itemName || !amount)
TakeMissing(body) == StrFalsy(body.itemName) \/ Falsy(body.amount)

\* if (!personName) personName = "System"
PersonName(body) ==
    IF StrFalsy(body.personName) THEN "System" ELSE body.personName

\* isNaN(requestedAmount) || requestedAmount <= 0
InvalidAmount(r) == r.nan \/ r.v <= 0

\* Faulty variant of Insufficient: the stock check is left out.
InsufficientNever(item, requestedAmount) == FALSE

\* items[itemIndex].amount < requestedAmount
Insufficient(item, requestedAmount) == item.amount < requestedAmount

\* Variant of TakeCheck: the amount is checked before the item is looked up.
TakeCheckAmountFirst(body, items) ==
    LET itemIndex == FindIndex(items, body.itemName)
        r == ParseInt(body.amount)
    IN  IF InvalidAmount(r) THEN Error(400, "Invalid amount")
        ELSE IF itemIndex = 0 THEN Error(404, "Item not found")
        ELSE IF Insufficient(items[itemIndex], r.v)
             THEN Error(400, "Insufficient amount")
        ELSE NoResp

\* The checks the handler makes once items.json is read, in its order: the
\* response of the first one that fails, NoResp when all pass.
TakeCheck(body, items) ==
    LET itemIndex == FindIndex(items, body.itemName)
        r == ParseInt(body.amount)
    IN  IF itemIndex = 0 THEN Error(404, "Item not found")
        ELSE IF InvalidAmount(r) THEN Error(400, "Invalid amount")
        ELSE IF Insufficient(items[itemIndex], r.v)
             THEN Error(400, "Insufficient amount")
        ELSE NoResp

\* items[itemIndex].amount -= requestedAmount
\* Variant of Deduct that takes one unit whatever the amount asked for.
DeductOne(items, itemIndex, requestedAmount) ==
    [items EXCEPT ![itemIndex].amount = @ - 1]

Deduct(items, itemIndex, requestedAmount) ==
    [items EXCEPT ![itemIndex].amount = @ - requestedAmount]

\* The record pushed on the ledger.
TakeRecord(body, requestedAmount) ==
    [personName |-> PersonName(body),
     itemName |-> body.itemName,
     amount |-> requestedAmount,
     date |-> IF StrFalsy(body.date) THEN "" ELSE body.date]

\* The success response: the message and the matched item's amount left.
\* Variant of TakeResponse built from the amount read before the decrement.
TakeResponseStale(body, requestedAmount, item) ==
    [status |-> 200,
     message |-> [person |-> PersonName(body), taken |-> requestedAmount,
                  item |-> item.name,
                  outOfStock |-> item.amount + requestedAmount = 0],
     remaining |-> item.amount + requestedAmount]

TakeResponse(body, requestedAmount, item) ==
    [status |-> 200,
     message |-> [person |-> PersonName(body), taken |-> requestedAmount,
                  item |-> item.name, outOfStock |-> item.amount = 0],
     remaining |-> item.amount]

\* ---------------------------------------------------------------- ledger
\* new Date(s) as a number: the day of a date string, NaN for any other
\* text and for "".
DateTime(s) ==
    CASE s = "2024-01-01" -> [nan |-> FALSE, v |-> 1]
      [] s = "2024-01-02" -> [nan |-> FALSE, v |-> 2]
      [] OTHER -> [nan |-> TRUE, v |-> 0]

\* (a, b) => new Date(b.date) - new Date(a.date), as Array.prototype.sort
\* reads it: a NaN result counts as 0.
CompareFn(a, b) ==
    LET ta == DateTime(a.date)
        tb == DateTime(b.date)
    IN  IF ta.nan \/ tb.nan THEN 0 ELSE tb.v - ta.v

\* Array.prototype.sort of the engine, for the short arrays handled here: the
\* leading run is taken as it stands (reversed when strictly descending) and
\* the remaining elements are inserted one by one by binary search.
RECURSIVE RunLength(_, _, _)
RunLength(arr, idx, descending) ==
    IF idx > Len(arr) THEN idx - 1
    ELSE LET order == CompareFn(arr[idx], arr[idx - 1])
         IN  IF (descending /\ order >= 0) \/ (~descending /\ order < 0)
             THEN idx - 1
             ELSE RunLength(arr, idx + 1, descending)

Reverse(arr) == [i \in 1..Len(arr) |-> arr[Len(arr) + 1 - i]]

RECURSIVE InsertionPoint(_, _, _, _)
InsertionPoint(arr, pivot, left, right) ==
    IF left >= right THEN left
    ELSE LET mid == left + ((right - left) \div 2)
         IN  IF CompareFn(pivot, arr[mid]) < 0
             THEN InsertionPoint(arr, pivot, left, mid)
             ELSE InsertionPoint(arr, pivot, mid + 1, right)

RECURSIVE InsertFrom(_, _)
InsertFrom(arr, start) ==
    IF start > Len(arr) THEN arr
    ELSE LET pivot == arr[start]
             at == InsertionPoint(arr, pivot, 1, start)
         IN  InsertFrom(SubSeq(arr, 1, at - 1) \o <<pivot>>
                            \o SubSeq(arr, at, start - 1)
                            \o SubSeq(arr, start + 1, Len(arr)),
                        start + 1)

\* transactions.sort((a, b) => new Date(b.date) - new Date(a.date))
SortByDate(arr) ==
    IF Len(arr) < 2 THEN arr
    ELSE LET descending == CompareFn(arr[2], arr[1]) < 0
             run == RunLength(arr, 3, descending)
             made == IF descending
                     THEN Reverse(SubSeq(arr, 1, run))
                              \o SubSeq(arr, run + 1, Len(arr))
                     ELSE arr
         IN  InsertFrom(made, run + 1)

\* parseInt(req.params.index)
ParseIndex(param) == ParseInt(Str(param))

\* index < 0 || index >= transactions.length (false for NaN on both sides)
OutOfBounds(r, transactions) ==
    ~r.nan /\ (r.v < 0 \/ r.v >= Len(transactions))

\* transactions[index] = { ...transactions[index], ...req.body } as
\* JSON.stringify then writes the array: a NaN index sets a property the
\* serialized array does not carry.
MergeAt(transactions, r, body) ==
    IF r.nan THEN transactions
    ELSE [transactions EXCEPT ![r.v + 1] = Merge(@, body)]

\* The record res.json(transactions[index]) sends, read from the array after
\* the assignment.
MergedEntry(transactions, r, body) ==
    IF r.nan THEN body ELSE transactions[r.v + 1]

\* transactions.splice(index, 1): a NaN start is 0.
SpliceOne(transactions, r) ==
    LET start == IF r.nan THEN 0 ELSE r.v
    IN  IF start >= Len(transactions) THEN transactions
        ELSE SubSeq(transactions, 1, start)
                \o SubSeq(transactions, start + 2, Len(transactions))

\* --------------------------------------------------------------- requests
AmountVals == (0 - 1)..MaxAmount

RawAmounts ==
    {Undef} \cup {Num(n) : n \in (0 - 1)..(MaxAmount + 1)}
        \cup {Str(<<"1">>), Str(<<"x">>)}

TakeBodies ==
    [personName : {Undefined, "p"}, itemName : {Undefined} \cup Names,
     amount : RawAmounts, date : {Undefined, "d"}]

UpdateBodies ==
    {[amount |-> v] : v \in AmountVals} \cup {[name |-> n] : n \in Names}
        \cup {[id |-> 1]}

Requests ==
    {[kind |-> "getItems"]}
    \cup {[kind |-> "createItem", body |-> [name |-> n, amount |-> v]] :
            n \in Names, v \in AmountVals}
    \cup {[kind |-> "updateItem", name |-> n, body |-> b] :
            n \in Names, b \in UpdateBodies}
    \cup {[kind |-> "deleteItem", name |-> n] : n \in Names}
    \cup {[kind |-> "takeItem", body |-> b] : b \in TakeBodies}

\* items.json as a previous run of the server can have left it.
InitItems ==
    {<<>>,
     <<Item(1, "a", 2)>>,
     <<Item(1, "a", 1), Item(2, "a", 2)>>,
     <<Item(1, "a", 2), Item(2, "b", 1)>>}

\* The server starts on the files it finds (initializeFiles keeps them).
InitWith(itemsFiles, transFiles) ==
    /\ items0 \in itemsFiles
    /\ itemsFile = items0
    /\ itemsTorn = FALSE
    /\ trans0 \in transFiles
    /\ transFile = trans0
    /\ transTorn = FALSE
    /\ clock = Len(items0) + 1
    /\ pc = [p \in Procs |-> "idle"]
    /\ req = [p \in Procs |-> NoReq]
    /\ local = [p \in Procs |-> NoLocal]
    /\ resp = [p \in Procs |-> NoResp]

Init == InitWith(InitItems, {<<>>})

\* ---------------------------------------------------------------- actions
\* res.status(..).json(..): the handler ends.
Respond(p, r) ==
    /\ pc' = [pc EXCEPT ![p] = "done"]
    /\ resp' = [resp EXCEPT ![p] = r]
    /\ local' = [local EXCEPT ![p] = NoLocal]

\* The handler suspends at its next await.
Await(p, at, l) ==
    /\ pc' = [pc EXCEPT ![p] = at]
    /\ local' = [local EXCEPT ![p] = l]
    /\ resp' = resp

\* Date.now() moves on.
Tick ==
    /\ clock < Len(items0) + 1 + MaxTicks
    /\ clock' = clock + 1
    /\ UNCHANGED <<itemsFile, itemsTorn, transFile, transTorn, pc, req, local,
                   resp, items0, trans0>>

\* The file the handler of a route reads first.
FirstAwait(kind) ==
    IF kind \in {"getTransactions", "updateTransaction", "deleteTransaction"}
    THEN "readTrans"
    ELSE "readItems"

\* A request out of requests arrives and its handler runs up to its first
\* await.
ReceiveFrom(p, requests) ==
    /\ pc[p] = "idle"
    /\ \E r \in requests :
        /\ req' = [req EXCEPT ![p] = r]
        /\ IF r.kind = "takeItem" /\ TakeMissing(r.body)
           THEN Respond(p, Error(400, "Missing required fields"))
           ELSE Await(p, FirstAwait(r.kind), NoLocal)
    /\ UNCHANGED <<itemsFile, itemsTorn, transFile, transTorn, clock, items0,
                   trans0>>

Receive(p) == ReceiveFrom(p, Requests)

\* JSON.parse(await fs.readFile(ITEMS_FILE)) and the handler's code up to its
\* next await.
ReadItems(p) ==
    /\ pc[p] = "readItems"
    /\ LET k == req[p].kind
           body == req[p].body
       IN  IF itemsTorn THEN Respond(p, ServerError(k))
           ELSE CASE k = "getItems" ->
                    Respond(p, [status |-> 200, body |-> itemsFile])
             [] k = "createItem" ->
                    Await(p, "truncItems",
                          [NoLocal EXCEPT !.items =
                              Append(itemsFile,
                                     Item(clock, body.name, body.amount))])
             [] k = "updateItem" ->
                    LET index == FindIndex(itemsFile, req[p].name)
                    IN  IF index = 0
                        THEN Respond(p, Error(404, "Item not found"))
                        ELSE Await(p, "truncItems",
                                   [NoLocal EXCEPT
                                       !.items = [itemsFile EXCEPT ![index] =
                                                    Merge(@, body)],
                                       !.index = index])
             [] k = "deleteItem" ->
                    Await(p, "truncItems",
                          [NoLocal EXCEPT !.items =
                              FilterOut(itemsFile, req[p].name)])
             [] k = "takeItem" ->
                    LET failed == TakeCheck(body, itemsFile)
                        itemIndex == FindIndex(itemsFile, body.itemName)
                        requestedAmount == ParseInt(body.amount).v
                    IN  IF failed # NoResp THEN Respond(p, failed)
                        ELSE Await(p, "truncItems",
                                   [NoLocal EXCEPT
                                       !.items = Deduct(itemsFile, itemIndex,
                                                        requestedAmount),
                                       !.index = itemIndex,
                                       !.requestedAmount = requestedAmount])
    /\ UNCHANGED <<itemsFile, itemsTorn, transFile, transTorn, clock, req,
                   items0, trans0>>

\* fs.writeFile(ITEMS_FILE, ..) opens the file, which truncates it.
TruncItems(p) ==
    /\ pc[p] = "truncItems"
    /\ itemsFile' = itemsFile
    /\ itemsTorn' = TRUE
    /\ Await(p, "writeItems", local[p])
    /\ UNCHANGED <<transFile, transTorn, clock, req, items0, trans0>>

\* fs.writeFile(ITEMS_FILE, JSON.stringify(items)) writes, and the handler
\* runs on to its next await or its response.
\* Variant of WriteItems whose handler goes on without the write having
\* completed.
WriteItemsUnawaited(p) ==
    /\ pc[p] = "writeItems"
    /\ LET k == req[p].kind
           items == local[p].items
       IN  CASE k = "createItem" ->
                    Respond(p, [status |-> 201, body |-> items[Len(items)]])
             [] k = "updateItem" ->
                    Respond(p, [status |-> 200,
                                body |-> items[local[p].index]])
             [] k = "deleteItem" -> Respond(p, [status |-> 204])
             [] k = "takeItem" -> Await(p, "readTrans", local[p])
    /\ UNCHANGED <<itemsFile, itemsTorn, transFile, transTorn, clock, req,
                   items0, trans0>>

WriteItems(p) ==
    /\ pc[p] = "writeItems"
    /\ itemsFile' = local[p].items
    /\ itemsTorn' = FALSE
    /\ LET k == req[p].kind
           items == local[p].items
       IN  CASE k = "createItem" ->
                    Respond(p, [status |-> 201, body |-> items[Len(items)]])
             [] k = "updateItem" ->
                    Respond(p, [status |-> 200,
                                body |-> items[local[p].index]])
             [] k = "deleteItem" -> Respond(p, [status |-> 204])
             [] k = "takeItem" -> Await(p, "readTrans", local[p])
    /\ UNCHANGED <<transFile, transTorn, clock, req, items0, trans0>>

\* JSON.parse(await fs.readFile(TRANSACTIONS_FILE)) and the code up to the
\* next await.
ReadTrans(p) ==
    /\ pc[p] = "readTrans"
    /\ req[p].kind # "getTransactions"
    /\ LET k == req[p].kind
       IN  IF transTorn THEN Respond(p, ServerError(k))
           ELSE CASE k = "takeItem" ->
                    Await(p, "truncTrans",
                          [local[p] EXCEPT !.transactions =
                              Append(transFile,
                                     TakeRecord(req[p].body,
                                                local[p].requestedAmount))])
             [] k = "updateTransaction" ->
                    LET r == ParseIndex(req[p].index)
                    IN  IF OutOfBounds(r, transFile)
                        THEN Respond(p, Error(404, "Transaction not found"))
                        ELSE Await(p, "truncTrans",
                                   [NoLocal EXCEPT !.transactions =
                                       MergeAt(transFile, r, req[p].body)])
             [] k = "deleteTransaction" ->
                    LET r == ParseIndex(req[p].index)
                    IN  IF OutOfBounds(r, transFile)
                        THEN Respond(p, Error(404, "Transaction not found"))
                        ELSE Await(p, "truncTrans",
                                   [NoLocal EXCEPT !.transactions =
                                       SpliceOne(transFile, r)])
    /\ UNCHANGED <<itemsFile, itemsTorn, transFile, transTorn, clock, req,
                   items0, trans0>>

\* fs.writeFile(TRANSACTIONS_FILE, ..) opens the file, which truncates it.
TruncTrans(p) ==
    /\ pc[p] = "truncTrans"
    /\ transFile' = transFile
    /\ transTorn' = TRUE
    /\ Await(p, "writeTrans", local[p])
    /\ UNCHANGED <<itemsFile, itemsTorn, clock, req, items0, trans0>>

\* fs.writeFile(TRANSACTIONS_FILE, JSON.stringify(transactions)) writes, and
\* the handler responds.
WriteTrans(p) ==
    /\ pc[p] = "writeTrans"
    /\ transFile' = local[p].transactions
    /\ transTorn' = FALSE
    /\ LET k == req[p].kind
       IN  CASE k = "takeItem" ->
                    Respond(p, TakeResponse(req[p].body,
                                            local[p].requestedAmount,
                                            local[p].items[local[p].index]))
             [] k = "updateTransaction" ->
                    Respond(p, [status |-> 200,
                                body |-> MergedEntry(local[p].transactions,
                                                     ParseIndex(req[p].index),
                                                     req[p].body)])
             [] k = "deleteTransaction" -> Respond(p, [status |-> 204])
    /\ UNCHANGED <<itemsFile, itemsTorn, clock, req, items0, trans0>>

\* Variant of ListTrans that saves the sorted array.
ListTransSaving(p) ==
    /\ pc[p] = "readTrans"
    /\ req[p].kind = "getTransactions"
    /\ IF transTorn THEN Respond(p, ServerError("getTransactions"))
       ELSE Respond(p, [status |-> 200, body |-> SortByDate(transFile)])
    /\ transFile' = IF transTorn THEN transFile ELSE SortByDate(transFile)
    /\ UNCHANGED <<itemsFile, itemsTorn, transTorn, clock, req, items0,
                   trans0>>

\* GET /transactions: JSON.parse(await fs.readFile(TRANSACTIONS_FILE)), the
\* sort of the parsed array and the response; nothing is written.
ListTrans(p) ==
    /\ pc[p] = "readTrans"
    /\ req[p].kind = "getTransactions"
    /\ IF transTorn THEN Respond(p, ServerError("getTransactions"))
       ELSE Respond(p, [status |-> 200, body |-> SortByDate(transFile)])
    /\ UNCHANGED <<itemsFile, itemsTorn, transFile, transTorn, clock, req,
                   items0, trans0>>

\* A file operation rejects (an I/O error): the handler's catch block answers.
\* A write that fails after it opened the file leaves the file truncated.
IOError(p) ==
    /\ pc[p] \in {"readItems", "truncItems", "writeItems", "readTrans",
                  "truncTrans", "writeTrans"}
    /\ Respond(p, ServerError(req[p].kind))
    /\ UNCHANGED <<itemsFile, itemsTorn, transFile, transTorn, clock, req,
                   items0, trans0>>

Next ==
    \/ Tick
    \/ \E p \in Procs : Receive(p)
    \/ \E p \in Procs : ReadItems(p)
    \/ \E p \in Procs : TruncItems(p)
    \/ \E p \in Procs : WriteItems(p)
    \/ \E p \in Procs : ReadTrans(p)
    \/ \E p \in Procs : TruncTrans(p)
    \/ \E p \in Procs : WriteTrans(p)
    \/ \E p \in Procs : IOError(p)

Spec == Init /\ [][Next]_vars

\* One request and no other: the handler runs with nothing overlapping it.
Alone(p) == \A q \in Procs \ {p} : pc[q] = "idle"

SoloNext ==
    \/ Tick
    \/ \E p \in Procs : Alone(p) /\ Receive(p)
    \/ \E p \in Procs : Alone(p) /\ ReadItems(p)
    \/ \E p \in Procs : Alone(p) /\ TruncItems(p)
    \/ \E p \in Procs : Alone(p) /\ WriteItems(p)
    \/ \E p \in Procs : Alone(p) /\ ReadTrans(p)
    \/ \E p \in Procs : Alone(p) /\ TruncTrans(p)
    \/ \E p \in Procs : Alone(p) /\ WriteTrans(p)
    \/ \E p \in Procs : Alone(p) /\ IOError(p)

SoloSpec == Init /\ [][SoloNext]_vars

\* Requests handled one after the other: the handler of request p starts when
\* the requests before it have been answered and none after it has arrived.
InTurn(p) ==
    /\ \A q \in Procs : q < p => pc[q] = "done"
    /\ \A q \in Procs : q > p => pc[q] = "idle"

\* DELETE /items/:name requests handled one after the other.
DeleteRequests == {[kind |-> "deleteItem", name |-> n] : n \in Names}

DeleteInitItems ==
    InitItems \cup {<<Item(1, "b", 1), Item(2, "a", 0), Item(3, "b", 2)>>}

DeleteInit == InitWith(DeleteInitItems, {<<>>})

DeleteNext ==
    \/ \E p \in Procs : InTurn(p) /\ ReceiveFrom(p, DeleteRequests)
    \/ \E p \in Procs : ReadItems(p)
    \/ \E p \in Procs : TruncItems(p)
    \/ \E p \in Procs : WriteItems(p)
    \/ \E p \in Procs : IOError(p)

DeleteSpec == DeleteInit /\ [][DeleteNext]_vars

\* The ledger routes and the two list routes, handled one after the other on
\* a ledger earlier take-item requests left behind.
LedgerDates == {"", "2024-01-01", "2024-01-02"}

Entry(i, date) ==
    [personName |-> "p", itemName |-> "a", amount |-> i, date |-> date]

InitLedgers ==
    UNION {{[i \in 1..n |-> Entry(i, dates[i])] :
                dates \in [1..n -> LedgerDates]} : n \in 0..MaxLedger}

\* req.params.index as the URL carries it.
IndexParams ==
    {<<Digits[i + 1]>> : i \in 0..MaxLedger} \cup {<<"-", "1">>, <<"x">>}

TransBodies == {[date |-> "2024-01-02"]}

LedgerRequests ==
    {[kind |-> "getItems"], [kind |-> "getTransactions"]}
        \cup {[kind |-> "updateTransaction", index |-> i, body |-> b] :
                i \in IndexParams, b \in TransBodies}
        \cup {[kind |-> "deleteTransaction", index |-> i] : i \in IndexParams}

LedgerInit == InitWith({<<Item(1, "a", 2)>>}, InitLedgers)

LedgerNext ==
    \/ \E p \in Procs : InTurn(p) /\ ReceiveFrom(p, LedgerRequests)
    \/ \E p \in Procs : ReadItems(p)
    \/ \E p \in Procs : ListTrans(p)
    \/ \E p \in Procs : ReadTrans(p)
    \/ \E p \in Procs : TruncTrans(p)
    \/ \E p \in Procs : WriteTrans(p)

LedgerSpec == LedgerInit /\ [][LedgerNext]_vars

\* Take-item requests of one person without a date.
PlainTakes ==
    {[kind |-> "takeItem",
      body |-> [personName |-> "p", itemName |-> n, amount |-> a,
                date |-> Undefined]] : n \in Names, a \in RawAmounts}

\* List calls and take-item requests whose handlers overlap, on a disk that
\* reports no error.
OverlapRequests ==
    {[kind |-> "getItems"], [kind |-> "getTransactions"]} \cup PlainTakes

OverlapNext ==
    \/ \E p \in Procs : ReceiveFrom(p, OverlapRequests)
    \/ \E p \in Procs : ReadItems(p)
    \/ \E p \in Procs : TruncItems(p)
    \/ \E p \in Procs : WriteItems(p)
    \/ \E p \in Procs : ListTrans(p)
    \/ \E p \in Procs : ReadTrans(p)
    \/ \E p \in Procs : TruncTrans(p)
    \/ \E p \in Procs : WriteTrans(p)

OverlapSpec == Init /\ [][OverlapNext]_vars

\* Take-item requests handled one after the other on a disk that reports no
\* error.
TakeSeqNext ==
    \/ \E p \in Procs : InTurn(p) /\ ReceiveFrom(p, PlainTakes)
    \/ \E p \in Procs : ReadItems(p)
    \/ \E p \in Procs : TruncItems(p)
    \/ \E p \in Procs : WriteItems(p)
    \/ \E p \in Procs : ReadTrans(p)
    \/ \E p \in Procs : TruncTrans(p)
    \/ \E p \in Procs : WriteTrans(p)

TakeSeqSpec == Init /\ [][TakeSeqNext]_vars

\* ------------------------------------------------------------- properties
Received(p) == pc[p] # "idle"
Done(p) == pc[p] = "done"
Quiescent == \A p \in Procs : pc[p] \in {"idle", "done"}
OnlyRequest(p) == Alone(p)
NoServerError == \A p \in Procs : resp[p].status # 500

\* Request p is a take-item that reported success.
TookOk(p) == Done(p) /\ req[p].kind = "takeItem" /\ resp[p].status = 200
\* Request p is a create that reported success.
CreatedOk(p) == Done(p) /\ req[p].kind = "createItem" /\ resp[p].status = 201

\* The amounts the successful take-item requests asked for, summed.
TakenSum ==
    LET s[i \in 0..NumReq] ==
            IF i = 0 THEN 0
            ELSE s[i - 1] + (IF TookOk(i) THEN resp[i].message.taken ELSE 0)
    IN  s[NumReq]

\* The amounts of the items the successful creates added, summed.
CreatedSum ==
    LET s[i \in 0..NumReq] ==
            IF i = 0 THEN 0
            ELSE s[i - 1] + (IF CreatedOk(i) THEN req[i].body.amount ELSE 0)
    IN  s[NumReq]

TotalAmount(items) ==
    LET s[i \in 0..Len(items)] ==
            IF i = 0 THEN 0 ELSE s[i - 1] + items[i].amount
    IN  s[Len(items)]

\* C1: when every request of the run is a take-item on the same item name,
\* the amounts of the takes that reported success sum to at most the amount
\* the first item of that name had when the run started.
C1_NoOverselling ==
    \A n \in Names :
        (/\ FindIndex(items0, n) # 0
         /\ \A p \in Procs :
                Received(p) =>
                    req[p].kind = "takeItem" /\ req[p].body.itemName = n)
        => TakenSum <= items0[FindIndex(items0, n)].amount

\* C2: when every request of the run is a take-item or a create and all of
\* them reported success, items.json holds every created item and its total
\* stock is the starting total plus what was created minus what was taken.
C2_NoLostUpdate ==
    (\A p \in Procs : Received(p) => TookOk(p) \/ CreatedOk(p))
    => /\ ~itemsTorn
       /\ Len(itemsFile) =
            Len(items0) + Cardinality({p \in Procs : CreatedOk(p)})
       /\ TotalAmount(itemsFile) =
            TotalAmount(items0) + CreatedSum - TakenSum

\* C3: with no ledger update or delete and no request answered 500, once no
\* request is in flight the ledger has one entry more than at the start for
\* every take-item that reported success.
C3_AuditTrail ==
    (/\ Quiescent
     /\ NoServerError
     /\ \A p \in Procs :
            req[p].kind \notin {"updateTransaction", "deleteTransaction"})
    => /\ ~transTorn
       /\ Len(transFile) =
            Len(trans0) + Cardinality({p \in Procs : TookOk(p)})

\* C4: when a take-item was the only request of the run and has ended, a
\* changed items.json comes with exactly one new, readable ledger entry.
C4_TakeIsOneUnit ==
    \A p \in Procs :
        (Done(p) /\ OnlyRequest(p) /\ req[p].kind = "takeItem")
        => (itemsFile # items0
                => ~transTorn /\ Len(transFile) = Len(trans0) + 1)

\* C5: every item of items.json has an amount >= 0.
C5_NonNegativeStock ==
    \A i \in 1..Len(itemsFile) : itemsFile[i].amount >= 0

\* C9: in a run of take-item requests only, a take's write of items.json
\* raises no item's amount over the content it replaces, and lowers the
\* amount of the item it matched.
C9_NoImplicitIncrease ==
    [][\A p \in Procs :
        (/\ \A q \in Procs : Received(q) => req[q].kind = "takeItem"
         /\ pc[p] = "writeItems"
         /\ pc'[p] = "readTrans")
        => /\ \A i \in 1..Len(itemsFile) :
                itemsFile'[i].amount <= itemsFile[i].amount
           /\ itemsFile'[local[p].index].amount
                < itemsFile[local[p].index].amount]_vars

\* C10: when every request of the run is a create, no two items of
\* items.json have the same id.
C10_UniqueIds ==
    (\A p \in Procs : Received(p) => req[p].kind = "createItem")
    => \A i, j \in 1..Len(itemsFile) :
            i # j => itemsFile[i].id # itemsFile[j].id

\* The item positions of items whose name is name.
Matches(items, name) == {i \in 1..Len(items) : items[i].name = name}
\* The first of them.
First(items, name) ==
    CHOOSE i \in Matches(items, name) : \A j \in Matches(items, name) : i <= j

\* The body misses itemName or amount (0 and "" count as missing).
Absent(b) ==
    \/ b.itemName \in {Undefined, ""}
    \/ b.amount \in {Undef, Num(0), Str(<<>>)}
\* The amount does not parse to an integer > 0.
NotPositive(b) == ParseInt(b.amount).nan \/ ParseInt(b.amount).v <= 0

\* A take-item body that must be rejected against the stored items: a field
\* missing, the amount no positive integer, no item of that name, or more
\* asked than the first item of that name has.
RejectedInput(b, items) ==
    \/ Absent(b)
    \/ NotPositive(b)
    \/ Matches(items, b.itemName) = {}
    \/ items[First(items, b.itemName)].amount < ParseInt(b.amount).v

\* C6: when every request of the run is a take-item that has ended and was
\* answered 400 or 404, or had to be rejected (missing field, invalid amount,
\* no such item, insufficient stock), both files are as they were at the
\* start: no amount changed, no ledger entry added.
C6_RejectedTakeChangesNothing ==
    (\A p \in Procs :
        Received(p) =>
            /\ Done(p)
            /\ req[p].kind = "takeItem"
            /\ \/ resp[p].status \in {400, 404}
               \/ RejectedInput(req[p].body, items0))
    => /\ itemsFile = items0 /\ ~itemsTorn
       /\ transFile = trans0 /\ ~transTorn

\* A take-item asking more than the stored item has was answered
\* 400 "Insufficient amount".
C6_Witness ==
    \E p \in Procs :
        /\ Done(p) /\ req[p].kind = "takeItem"
        /\ resp[p] = Error(400, "Insufficient amount")
        /\ Matches(items0, req[p].body.itemName) # {}

C11_IdsImmutable ==
    \A p \in Procs :
        (OnlyRequest(p) /\ Received(p)
            /\ req[p].kind \in {"updateItem", "takeItem"})
        => /\ Len(itemsFile) = Len(items0)
           /\ \A i \in 1..Len(items0) : itemsFile[i].id = items0[i].id

\* The items whose name is none of names, in their order.
Without(items, names) == SelectSeq(items, LAMBDA it : it.name \notin names)

\* Request p is the latest one and no request up to it met an I/O error.
LatestClean(p) ==
    /\ Done(p)
    /\ \A q \in Procs : q > p => pc[q] = "idle"
    /\ \A q \in Procs : q <= p => resp[q].status # 500

\* C12: deletes handled one after the other each answer 204 and leave
\* items.json holding the start's items whose name was not deleted, in their
\* order: every item of a deleted name is gone, a name that matches nothing
\* changes nothing, and deleting a name a second time changes nothing more.
C12_DeleteEffect ==
    \A p \in Procs :
        (LatestClean(p) /\ \A q \in Procs : q <= p => req[q].kind = "deleteItem")
        => /\ resp[p].status = 204
           /\ ~itemsTorn
           /\ itemsFile = Without(items0, {req[q].name : q \in 1..p})

\* Two deletes of one name that two items carry, next to an item of another
\* name that stays.
C12_Witness ==
    /\ Done(1) /\ Done(2)
    /\ resp[1].status = 204 /\ resp[2].status = 204
    /\ req[1].name = req[2].name
    /\ Cardinality(Matches(items0, req[1].name)) = 2
    /\ Len(items0) = 3
    /\ Len(itemsFile) = 1

\* Sequence b holds the elements of sequence a, each as often.
IsPermutation(a, b) ==
    /\ Len(a) = Len(b)
    /\ \E f \in [1..Len(a) -> 1..Len(a)] :
        /\ \A i, j \in 1..Len(a) : i # j => f[i] # f[j]
        /\ \A i \in 1..Len(a) : b[i] = a[f[i]]

\* Where entry e is stored in ledger.
StoredAt(ledger, e) == CHOOSE k \in 1..Len(ledger) : ledger[k] = e

\* Request p is answered and no request has arrived after it.
Latest(p) == Done(p) /\ \A q \in Procs : q > p => pc[q] = "idle"

\* C13: GET /transactions answers with the stored entries, each once, the
\* later of two dated entries first, and two entries with the same date (or
\* both with the empty date) in their stored order.
C13_ListedLatestFirst ==
    \A p \in Procs :
        (Latest(p) /\ req[p].kind = "getTransactions" /\ resp[p].status = 200)
        => LET listed == resp[p].body
           IN  /\ IsPermutation(transFile, listed)
               /\ \A i, j \in 1..Len(listed) :
                    (i < j /\ ~DateTime(listed[i].date).nan
                           /\ ~DateTime(listed[j].date).nan)
                    => DateTime(listed[i].date).v >= DateTime(listed[j].date).v
               /\ \A i, j \in 1..Len(listed) :
                    (i < j /\ listed[i].date = listed[j].date)
                    => StoredAt(transFile, listed[i])
                           < StoredAt(transFile, listed[j])

\* Request p addresses position r.v of ledger.
ValidPosition(r, ledger) == ~r.nan /\ r.v >= 0 /\ r.v < Len(ledger)

\* C14: a ledger update or delete that is the first request of the run merges
\* the body over, or removes, exactly the entry at its index when the index
\* is a position of the ledger; for any other index it answers 404 and leaves
\* the ledger as it was.
C14_IndexAddressing ==
    (Done(1) /\ req[1].kind \in {"updateTransaction", "deleteTransaction"}
        /\ \A q \in Procs : q > 1 => pc[q] = "idle")
    => LET r == ParseInt(Str(req[1].index))
           k == r.v + 1
       IN  IF ValidPosition(r, trans0)
           THEN IF req[1].kind = "updateTransaction"
                THEN /\ resp[1].status = 200
                     /\ Len(transFile) = Len(trans0)
                     /\ \A i \in 1..Len(trans0) :
                          i # k => transFile[i] = trans0[i]
                     /\ \A f \in DOMAIN trans0[k] :
                          transFile[k][f] = IF f \in DOMAIN req[1].body
                                            THEN req[1].body[f]
                                            ELSE trans0[k][f]
                ELSE /\ resp[1].status = 204
                     /\ Len(transFile) = Len(trans0) - 1
                     /\ \A i \in 1..Len(transFile) :
                          transFile[i] = IF i < k THEN trans0[i]
                                         ELSE trans0[i + 1]
           ELSE resp[1].status = 404 /\ transFile = trans0

\* C15: on a disk that reports no error, a request whose read of a file
\* overlaps another request's save of that file is not answered with a
\* failure: no request ends with status 500.
C15_ReadsSeeWholeFiles == \A p \in Procs : resp[p].status # 500

\* C16: a take-item that runs without overlap and answers 200 reports as
\* remaining the first matching item's amount minus the amount taken, uses the
\* out-of-stock message exactly when that is 0, and leaves the item stored
\* with that amount (an item taken down to 0 is not removed).
C16_TakeResponse ==
    \A p \in Procs :
        (Done(p) /\ OnlyRequest(p) /\ req[p].kind = "takeItem"
            /\ resp[p].status = 200)
        => LET b == req[p].body
               first == First(items0, b.itemName)
           IN  /\ resp[p].remaining =
                    items0[first].amount - ParseInt(b.amount).v
               /\ resp[p].message.outOfStock <=> resp[p].remaining = 0
               /\ Len(itemsFile) = Len(items0)
               /\ itemsFile[first].name = b.itemName
               /\ itemsFile[first].amount = resp[p].remaining

\* A lone take-item took the last units of an item.
C16_Witness ==
    \E p \in Procs :
        /\ Done(p) /\ OnlyRequest(p) /\ req[p].kind = "takeItem"
        /\ resp[p].status = 200
        /\ resp[p].remaining = 0
        /\ resp[p].message.outOfStock
        /\ itemsFile[First(items0, req[p].body.itemName)].amount = 0

\* C17: an update that runs without overlap and meets no I/O error changes
\* the first stored item of that name only: the fields the body carries take
\* the body's values, the other fields and all other items stay, in order,
\* and the answer is 200 with the updated record; when no item has the name
\* the answer is 404 and items.json is unchanged.
C17_UpdateEffect ==
    \A p \in Procs :
        (Done(p) /\ OnlyRequest(p) /\ req[p].kind = "updateItem"
            /\ resp[p].status # 500)
        => LET body == req[p].body
               first == First(items0, req[p].name)
           IN  /\ ~itemsTorn
               /\ IF Matches(items0, req[p].name) = {}
                  THEN resp[p].status = 404 /\ itemsFile = items0
                  ELSE /\ resp[p].status = 200
                       /\ Len(itemsFile) = Len(items0)
                       /\ \A i \in 1..Len(items0) :
                            i # first => itemsFile[i] = items0[i]
                       /\ \A f \in {"id", "name", "amount"} :
                            itemsFile[first][f] =
                                IF f \in DOMAIN body THEN body[f]
                                ELSE items0[first][f]
                       /\ resp[p].body = itemsFile[first]

\* A lone update gave a new amount to the first of two items of one name.
C17_Witness ==
    \E p \in Procs :
        /\ Done(p) /\ OnlyRequest(p) /\ req[p].kind = "updateItem"
        /\ resp[p].status = 200
        /\ Cardinality(Matches(items0, req[p].name)) = 2
        /\ "amount" \in DOMAIN req[p].body
        /\ itemsFile[1].amount # items0[1].amount
        /\ itemsFile[2] = items0[2]

ListCall(p) == req[p].kind \in {"getItems", "getTransactions"}

\* C18: list calls change neither file, so while every request so far is a
\* list call both files are as at the start; and a ledger update or delete
\* that follows any number of list calls with an index that is a position of
\* the ledger acts on the entry stored at that position, not on the entry the
\* sorted listing showed there.
C18_ListsChangeNothing ==
    /\ (\A p \in Procs : Received(p) => ListCall(p))
        => /\ itemsFile = items0 /\ ~itemsTorn
           /\ transFile = trans0 /\ ~transTorn
    /\ \A p \in Procs :
        (Latest(p) /\ ~ListCall(p) /\ (\A q \in 1..(p - 1) : ListCall(q))
            /\ ValidPosition(ParseInt(Str(req[p].index)), trans0))
        => LET k == ParseInt(Str(req[p].index)).v + 1
           IN  IF req[p].kind = "deleteTransaction"
               THEN /\ resp[p].status = 204
                    /\ transFile = SubSeq(trans0, 1, k - 1)
                                     \o SubSeq(trans0, k + 1, Len(trans0))
               ELSE /\ resp[p].status = 200
                    /\ Len(transFile) = Len(trans0)
                    /\ \A i \in 1..Len(trans0) :
                         i # k => transFile[i] = trans0[i]
                    /\ transFile[k].amount = trans0[k].amount
                    /\ transFile[k].date = req[p].body.date

\* A listing showed the entries in another order than stored, and the delete
\* of index 0 after it removed the entry stored first.
C18_Witness ==
    /\ Done(1) /\ req[1].kind = "getTransactions"
    /\ resp[1].status = 200
    /\ resp[1].body # trans0
    /\ Done(2) /\ req[2].kind = "deleteTransaction"
    /\ req[2].index = <<"0">>
    /\ resp[2].status = 204
    /\ transFile = Tail(trans0)

DistinctNames(items) ==
    \A i, j \in 1..Len(items) : i # j => items[i].name # items[j].name

\* The amounts of the ledger entries for item name, summed.
LedgerSum(ledger, name) ==
    LET s[i \in 0..Len(ledger)] ==
            IF i = 0 THEN 0
            ELSE s[i - 1] + (IF ledger[i].itemName = name
                             THEN ledger[i].amount ELSE 0)
    IN  s[Len(ledger)]

\* C19: starting from items with distinct names and an empty ledger, once
\* take-item requests handled one after the other have all been answered,
\* every item's start amount equals its stored amount plus the amounts of the
\* ledger entries that name it.
C19_StockConserved ==
    (DistinctNames(items0) /\ trans0 = <<>> /\ Quiescent)
    => /\ Len(itemsFile) = Len(items0)
       /\ \A i \in 1..Len(items0) :
            /\ itemsFile[i].name = items0[i].name
            /\ items0[i].amount =
                 itemsFile[i].amount + LedgerSum(transFile, items0[i].name)

\* Two takes in a row emptied an item, next to an item nobody took from.
C19_Witness ==
    /\ DistinctNames(items0) /\ Len(items0) = 2
    /\ TookOk(1) /\ TookOk(2)
    /\ req[1].body.itemName = req[2].body.itemName
    /\ Len(transFile) = 2
    /\ itemsFile[First(items0, req[1].body.itemName)].amount = 0

\* C20: in a take-item that runs without overlap, the ledger is read or
\* written only once items.json holds the decremented amount in full; and
\* when the items write did not complete, the request is answered with an
\* error and the ledger is as it was.
C20_ItemsWrittenFirst ==
    \A p \in Procs :
        (OnlyRequest(p) /\ Received(p) /\ req[p].kind = "takeItem")
        => /\ (pc[p] \in {"readTrans", "truncTrans", "writeTrans"}
                  \/ transTorn \/ transFile # trans0)
              => LET b == req[p].body
                     first == First(items0, b.itemName)
                 IN  /\ ~itemsTorn
                     /\ itemsFile =
                          [items0 EXCEPT ![first].amount =
                              @ - ParseInt(b.amount).v]
           /\ (Done(p) /\ (itemsTorn \/ itemsFile = items0))
              => /\ resp[p].status \in {400, 404, 500}
                 /\ itemsTorn => resp[p].status = 500
                 /\ transFile = trans0 /\ ~transTorn

\* A lone take-item has written the decremented items and is about to read
\* the ledger, which is still as at the start.
C20_Witness ==
    \E p \in Procs :
        /\ OnlyRequest(p) /\ req[p].kind = "takeItem"
        /\ pc[p] = "readTrans"
        /\ itemsFile # items0 /\ ~itemsTorn
        /\ transFile = trans0 /\ ~transTorn

==============================================================================
